---- MODULE Spec2Model ----
(***************************************************************************)
(* A2/dnsresolver.py: a command-line DNS resolver.  In iterative mode it   *)
(* walks the delegation hierarchy from a root server by following NS       *)
(* referrals; in recursive mode it asks the system resolver for the NS and *)
(* A records.  The servers and the system resolver are the environment:    *)
(* every reply, timeout and error they can produce is a nondeterministic   *)
(* input of the step that waits for it.                                    *)
(***************************************************************************)
EXTENDS Integers, Sequences, FiniteSets, TLC

(* ------------------------------ bounds --------------------------------- *)
\* number of printed lines kept (the most recent ones)
MaxOut == 4
\* number of queries kept in the query log (the first ones)
MaxLog == 4
\* number of addresses in one resolver answer
MaxAddrs == 2

(* ----------------------- constants of the program ---------------------- *)
\* list(ROOT_SERVERS.keys()): a dict keeps insertion order
ROOT_SERVERS ==
  <<"198.41.0.4", "199.9.14.201", "192.33.4.12", "199.7.91.13", "192.203.230.10">>

(* --------------------------- the environment --------------------------- *)
\* IPv4 addresses an A record can carry
IPv4Addrs == {"10.0.0.1", "198.41.0.4"}

\* sys.argv: the program name followed by zero to three arguments
Argvs ==
  {<<"prog">>} \cup
  { <<"prog", m>> : m \in {"iterative", "recursive"} } \cup
  { <<"prog", m, d>> : m \in {"iterative", "recursive", "bogus"},
                        d \in {"example.com", "bad..name"} } \cup
  { <<"prog", m, d, "extra">> : m \in {"iterative"}, d \in {"example.com"} }

\* dns.message.make_query raises (EmptyLabel) on a name with an empty label
MakeQueryRaises(dom) == dom = "bad..name"

\* host names are sequences of characters, so that strip('.') is computed
NameA == <<"a", ".">>
NameB == <<".", "b", ".">>
NameRoot == <<".">>

\* the parsed messages dns.query.udp can return: answer and authority
\* sections are sequences of rrsets, an rrset has a type and >= 1 rdata
ResponseTable == <<
  \* 1: a direct answer
  [tag |-> "Message",
   answer |-> << [rdtype |-> "A", items |-> <<"10.0.0.1", "198.41.0.4">>] >>,
   authority |-> << >>],
  \* 2: an answer whose first rrset is a CNAME, followed by the A rrset
  [tag |-> "Message",
   answer |-> << [rdtype |-> "CNAME", items |-> <<"alias.example.com.">>],
                 [rdtype |-> "A", items |-> <<"10.0.0.1">>] >>,
   authority |-> << >>],
  \* 3: an answer that also carries NS records in the authority section
  [tag |-> "Message",
   answer |-> << [rdtype |-> "A", items |-> <<"198.41.0.4">>] >>,
   authority |-> << [rdtype |-> "NS", items |-> <<NameA>>] >>],
  \* 4: a referral with two NS host names
  [tag |-> "Message",
   answer |-> << >>,
   authority |-> << [rdtype |-> "NS", items |-> <<NameA, NameB>>] >>],
  \* 5: a referral with an SOA rrset before the NS rrset
  [tag |-> "Message",
   answer |-> << >>,
   authority |-> << [rdtype |-> "SOA", items |-> <<NameA>>],
                    [rdtype |-> "NS", items |-> <<NameRoot, NameA>>] >>],
  \* 6: no answer, authority holds only an SOA record
  [tag |-> "Message",
   answer |-> << >>,
   authority |-> << [rdtype |-> "SOA", items |-> <<NameB>>] >>],
  \* 7: no answer, no authority
  [tag |-> "Message", answer |-> << >>, authority |-> << >>]
>>

\* what dns.query.udp does: a reply, a timeout or another exception
UdpOutcomes ==
  { [kind |-> "response", idx |-> i, detail |-> ""] : i \in 1..Len(ResponseTable) }
  \cup { [kind |-> "Timeout", idx |-> 0, detail |-> ""] }
  \cup { [kind |-> "Other", idx |-> 0, detail |-> d] : d \in {"refused", "badresponse"} }

\* non-empty sequences of at most MaxAddrs elements of S
SeqsUpTo(S) == UNION { [1..n -> S] : n \in 1..MaxAddrs }

\* what dns.resolver.resolve(name, "A") does: an answer of >= 1 addresses,
\* or NXDOMAIN, Timeout or another exception (NoAnswer, NoNameservers, ...)
ResolveOutcomes ==
  { [kind |-> "answer", addrs |-> a, detail |-> ""] : a \in SeqsUpTo(IPv4Addrs) }
  \cup { [kind |-> k, addrs |-> << >>, detail |-> ""] : k \in {"NXDOMAIN", "Timeout"} }
  \cup { [kind |-> "Other", addrs |-> << >>, detail |-> "noanswer"] }

\* what dns.resolver.resolve(domain, "NS") does
ResolveNSOutcomes ==
  { [kind |-> "answer", addrs |-> a, detail |-> ""] : a \in SeqsUpTo({"ns1.", "ns2."}) }
  \cup { [kind |-> k, addrs |-> << >>, detail |-> ""] : k \in {"NXDOMAIN", "Timeout"} }
  \cup { [kind |-> "Other", addrs |-> << >>, detail |-> "noanswer"] }

(* ------------------------------- state --------------------------------- *)
VARIABLES
  pc,            \* position: main, loop, got, resolve, rec_ns, rec_a, ret, done, crashed
  argv,          \* sys.argv
  stage,         \* iterative_dns_lookup: stage
  next_ns_list,  \* iterative_dns_lookup: next_ns_list
  ns_ip,         \* iterative_dns_lookup: ns_ip, the server being queried
  response,      \* iterative_dns_lookup: response (None when the query failed)
  ns_names,      \* extract_next_nameservers: ns_names
  ns_ips,        \* extract_next_nameservers: ns_ips
  idx,           \* extract_next_nameservers: position of the second loop in ns_names
  out,           \* standard output: the last MaxOut printed lines
  exit_status,   \* process exit status (-1 while running)
  qlog,          \* history: the first MaxLog queries, each with its stage and server
  qfail,         \* history: how the last send_dns_query call went
  xhist,         \* history: extractor calls and nested lookups for the current response
  rhist,         \* history: the outcomes of the lookups of recursive_dns_lookup
  op             \* history: the blocking call the last step made (none, query,
                 \* lookup, rlookup)

vars == <<pc, argv, stage, next_ns_list, ns_ip, response, ns_names, ns_ips, idx,
          out, exit_status, qlog, qfail, xhist, rhist, op>>

\* the variables of the iterative driver and of the extractor
iter_vars == <<stage, next_ns_list, ns_ip, response, ns_names, ns_ips, idx>>

\* the history variables of the iterative driver
iter_hist == <<qlog, qfail, xhist>>

None == [tag |-> "None"]
Unset == [tag |-> "unset"]

\* print: append lines to standard output
Emit(o, lines) ==
  LET all == o \o lines
  IN IF Len(all) > MaxOut THEN SubSeq(all, Len(all) - MaxOut + 1, Len(all)) ELSE all

\* history: record a query
LogQuery(l, q) == IF Len(l) < MaxLog THEN Append(l, q) ELSE l

Init ==
  /\ pc = "main"
  /\ argv \in Argvs
  /\ stage = "unset"
  /\ next_ns_list = << >>
  /\ ns_ip = "unset"
  /\ response = Unset
  /\ ns_names = << >>
  /\ ns_ips = << >>
  /\ idx = 1
  /\ out = << >>
  /\ exit_status = -1
  /\ qlog = << >>
  /\ qfail = [kind |-> "none", idx |-> 0, detail |-> "", attempts |-> 0]
  /\ xhist = [calls |-> 0, lookups |-> << >>]
  /\ rhist = << >>
  /\ op = "none"

(* ------------------------------ __main__ ------------------------------- *)
\* a slip: the mode is not checked
BadUsage_ArityOnly(av) == Len(av) # 3

\* the argument check: len(sys.argv) != 3 or sys.argv[1] not in {...}
BadUsage(av) == Len(av) # 3 \/ av[2] \notin {"iterative", "recursive"}

mode == argv[2]
domain == argv[3]

\* the argument check, then the first lines of the selected procedure up to
\* its first blocking call
Main ==
  /\ pc = "main"
  /\ IF BadUsage(argv)
     THEN /\ out' = Emit(out, << <<"USAGE">> >>)
          /\ exit_status' = 1
          /\ pc' = "done"
          /\ UNCHANGED <<stage, next_ns_list>>
     ELSE IF mode = "iterative"
     THEN /\ out' = Emit(out, << <<"ITERATIVE", domain>> >>)
          /\ next_ns_list' = ROOT_SERVERS
          /\ stage' = "ROOT"
          /\ pc' = "loop"
          /\ UNCHANGED exit_status
     ELSE /\ out' = Emit(out, << <<"RECURSIVE", domain>> >>)
          /\ pc' = "rec_ns"
          /\ UNCHANGED <<stage, next_ns_list, exit_status>>
  /\ op' = "none"
  /\ UNCHANGED <<argv, ns_ip, response, ns_names, ns_ips, idx, iter_hist, rhist>>

\* the procedure returned: print the elapsed time and fall off the end
Finish ==
  /\ pc = "ret"
  /\ out' = Emit(out, << <<"TIME">> >>)
  /\ exit_status' = 0
  /\ pc' = "done"
  /\ op' = "none"
  /\ UNCHANGED <<argv, iter_vars, iter_hist, rhist>>

(* --------------------------- send_dns_query ---------------------------- *)
\* a slip: a timed-out query is sent a second time
send_dns_query_Retry(server, dom, env) ==
  IF MakeQueryRaises(dom)
  THEN [ret |-> None, attempts |-> 0, raised |-> FALSE,
        lines |-> << <<"ERR_QUERY_EXCEPTION", server, dom, "emptylabel">> >>]
  ELSE IF env.kind = "response"
  THEN [ret |-> ResponseTable[env.idx], attempts |-> 1, raised |-> FALSE,
        lines |-> << >>]
  ELSE IF env.kind = "Timeout"
  THEN [ret |-> None, attempts |-> 2, raised |-> FALSE,
        lines |-> << <<"ERR_QUERY_TIMEOUT", server, dom>> >>]
  ELSE [ret |-> None, attempts |-> 1, raised |-> FALSE,
        lines |-> << <<"ERR_QUERY_EXCEPTION", server, dom, env.detail>> >>]

\* env is what the network does with the one datagram; the result is the
\* value returned, the lines printed, the number of datagrams sent and
\* whether an exception left the function
send_dns_query(server, dom, env) ==
  IF MakeQueryRaises(dom)
  THEN [ret |-> None, attempts |-> 0, raised |-> FALSE,
        lines |-> << <<"ERR_QUERY_EXCEPTION", server, dom, "emptylabel">> >>]
  ELSE IF env.kind = "response"
  THEN [ret |-> ResponseTable[env.idx], attempts |-> 1, raised |-> FALSE,
        lines |-> << >>]
  ELSE IF env.kind = "Timeout"
  THEN [ret |-> None, attempts |-> 1, raised |-> FALSE,
        lines |-> << <<"ERR_QUERY_TIMEOUT", server, dom>> >>]
  ELSE [ret |-> None, attempts |-> 1, raised |-> FALSE,
        lines |-> << <<"ERR_QUERY_EXCEPTION", server, dom, env.detail>> >>]

(* ----------------------- extract_next_nameservers ---------------------- *)
\* str.strip('.'): drop the dots at both ends
RECURSIVE LStrip(_)
LStrip(s) == IF Len(s) > 0 /\ Head(s) = "." THEN LStrip(Tail(s)) ELSE s

RECURSIVE RStrip(_)
RStrip(s) ==
  IF Len(s) > 0 /\ s[Len(s)] = "." THEN RStrip(SubSeq(s, 1, Len(s) - 1)) ELSE s

Strip(s) == RStrip(LStrip(s))

\* a slip: the type of the rrset is not tested
RECURSIVE ExtractNames_AllTypes(_)
ExtractNames_AllTypes(authority) ==
  IF Len(authority) = 0 THEN << >>
  ELSE LET rrset == Head(authority)
       IN [i \in 1..Len(rrset.items) |-> Strip(rrset.items[i])]
            \o ExtractNames_AllTypes(Tail(authority))

\* the first loop: the host names of the NS rrsets of the authority section
RECURSIVE ExtractNames(_)
ExtractNames(authority) ==
  IF Len(authority) = 0 THEN << >>
  ELSE LET rrset == Head(authority)
           here == IF rrset.rdtype = "NS"
                   THEN [i \in 1..Len(rrset.items) |-> Strip(rrset.items[i])]
                   ELSE << >>
       IN here \o ExtractNames(Tail(authority))

\* a slip: only the first address of an answer is kept
ResolveOne_FirstOnly(name, env) ==
  IF env.kind = "answer"
  THEN [ips |-> << env.addrs[1] >>, raised |-> FALSE,
        lines |-> << <<"RESOLVED", name, env.addrs[1]>> >>]
  ELSE IF env.kind = "NXDOMAIN"
  THEN [ips |-> << >>, raised |-> FALSE, lines |-> << <<"ERR_NS_NXDOMAIN", name>> >>]
  ELSE IF env.kind = "Timeout"
  THEN [ips |-> << >>, raised |-> FALSE, lines |-> << <<"ERR_NS_TIMEOUT", name>> >>]
  ELSE [ips |-> << >>, raised |-> FALSE,
        lines |-> << <<"ERR_NS_FAILED", name, env.detail>> >>]

\* one turn of the second loop: resolve one host name; env is what the
\* system resolver does
ResolveOne(name, env) ==
  IF env.kind = "answer"
  THEN [ips |-> env.addrs, raised |-> FALSE,
        lines |-> [i \in 1..Len(env.addrs) |-> <<"RESOLVED", name, env.addrs[i]>>]]
  ELSE IF env.kind = "NXDOMAIN"
  THEN [ips |-> << >>, raised |-> FALSE, lines |-> << <<"ERR_NS_NXDOMAIN", name>> >>]
  ELSE IF env.kind = "Timeout"
  THEN [ips |-> << >>, raised |-> FALSE, lines |-> << <<"ERR_NS_TIMEOUT", name>> >>]
  ELSE [ips |-> << >>, raised |-> FALSE,
        lines |-> << <<"ERR_NS_FAILED", name, env.detail>> >>]

(* ------------------------- iterative_dns_lookup ------------------------ *)
\* a slip: the first referral already leads to AUTH
NextStage_Skip(s) == IF s = "ROOT" THEN "AUTH" ELSE IF s = "TLD" THEN "AUTH" ELSE s

\* a slip: the stage wraps around after AUTH
NextStage_Wrap(s) == IF s = "ROOT" THEN "TLD" ELSE IF s = "TLD" THEN "AUTH" ELSE "ROOT"

\* the stage that follows a referral
NextStage(s) == IF s = "ROOT" THEN "TLD" ELSE IF s = "TLD" THEN "AUTH" ELSE s

\* a slip: the authority section is looked at before the answer section
Classification_ReferralFirst(resp) ==
  IF resp.tag = "None" THEN "failed"
  ELSE IF Len(resp.authority) > 0 THEN "referral"
  ELSE IF Len(resp.answer) > 0 THEN "answered"
  ELSE "referral"

\* if response: ... if response.answer: ...
Classification(resp) ==
  IF resp.tag = "None" THEN "failed"
  ELSE IF Len(resp.answer) > 0 THEN "answered"
  ELSE "referral"

\* response.answer[0][0]: the first rdata of the first rrset of the answer
ReportedValue(resp) == resp.answer[1].items[1]

\* a slip: the check of the extractor's result is missing
DeadEnd_Missing(l) == FALSE

\* if not next_ns_list
DeadEnd(l) == Len(l) = 0

\* a slip: the last candidate is picked
PickServer_Last(l) == l[Len(l)]

\* ns_ip = next_ns_list[0]
PickServer(l) == l[1]

\* the while condition, the choice of the server and the call of
\* send_dns_query
LoopTop ==
  /\ pc = "loop"
  /\ IF Len(next_ns_list) = 0
     THEN /\ out' = Emit(out, << <<"ERR_RESOLUTION_FAILED">> >>)
          /\ pc' = "ret"
          /\ op' = "none"
          /\ UNCHANGED <<ns_ip, response, exit_status, iter_hist>>
     ELSE \E env \in UdpOutcomes :
            LET server == PickServer(next_ns_list)
                r == send_dns_query(server, domain, env)
                bad == MakeQueryRaises(domain)
            IN /\ op' = "query"
               /\ ns_ip' = server
               /\ response' = r.ret
               /\ out' = Emit(out, r.lines)
               /\ qlog' = LogQuery(qlog, [stage |-> stage, server |-> server])
               /\ qfail' = [kind |-> IF bad THEN "Other" ELSE env.kind,
                            idx |-> IF bad THEN 0 ELSE env.idx,
                            detail |-> IF bad THEN "emptylabel" ELSE env.detail,
                            attempts |-> r.attempts]
               /\ xhist' = [calls |-> 0, lookups |-> << >>]
               /\ pc' = IF r.raised THEN "crashed" ELSE "got"
               /\ exit_status' = IF r.raised THEN 1 ELSE exit_status
  /\ UNCHANGED <<argv, stage, next_ns_list, ns_names, ns_ips, idx, rhist>>

\* a slip: a failed query is retried with the next candidate
Classify_Retry ==
  /\ pc = "got"
  /\ IF Classification(response) = "failed"
     THEN /\ out' = Emit(out, << <<"ERR_QUERY_FAILED", stage, ns_ip>> >>)
          /\ IF Len(next_ns_list) > 1
             THEN next_ns_list' = Tail(next_ns_list) /\ pc' = "loop"
             ELSE UNCHANGED next_ns_list /\ pc' = "ret"
          /\ UNCHANGED <<ns_names, ns_ips, idx, xhist>>
     ELSE IF Classification(response) = "answered"
     THEN /\ out' = Emit(out, << <<"DEBUG", stage, ns_ip>>,
                                 <<"SUCCESS", domain, ReportedValue(response)>> >>)
          /\ pc' = "ret"
          /\ UNCHANGED <<next_ns_list, ns_names, ns_ips, idx, xhist>>
     ELSE LET names == ExtractNames(response.authority)
          IN /\ out' = Emit(out, << <<"DEBUG", stage, ns_ip>> >> \o
                                 [i \in 1..Len(names) |-> <<"EXTRACTED", names[i]>>])
             /\ ns_names' = names
             /\ ns_ips' = << >>
             /\ idx' = 1
             /\ xhist' = [calls |-> xhist.calls + 1, lookups |-> << >>]
             /\ pc' = "resolve"
             /\ UNCHANGED next_ns_list
  /\ op' = "none"
  /\ UNCHANGED <<argv, stage, ns_ip, response, exit_status, qlog, qfail, rhist>>

\* the classification of what send_dns_query returned, up to the first
\* nested lookup of the extractor
Classify ==
  /\ pc = "got"
  /\ IF Classification(response) = "failed"
     THEN /\ out' = Emit(out, << <<"ERR_QUERY_FAILED", stage, ns_ip>> >>)
          /\ pc' = "ret"
          /\ UNCHANGED <<ns_names, ns_ips, idx, xhist>>
     ELSE IF Classification(response) = "answered"
     THEN /\ out' = Emit(out, << <<"DEBUG", stage, ns_ip>>,
                                 <<"SUCCESS", domain, ReportedValue(response)>> >>)
          /\ pc' = "ret"
          /\ UNCHANGED <<ns_names, ns_ips, idx, xhist>>
     ELSE LET names == ExtractNames(response.authority)
          IN /\ out' = Emit(out, << <<"DEBUG", stage, ns_ip>> >> \o
                                 [i \in 1..Len(names) |-> <<"EXTRACTED", names[i]>>])
             /\ ns_names' = names
             /\ ns_ips' = << >>
             /\ idx' = 1
             /\ xhist' = [calls |-> xhist.calls + 1, lookups |-> << >>]
             /\ pc' = "resolve"
  /\ op' = "none"
  /\ UNCHANGED <<argv, stage, next_ns_list, ns_ip, response, exit_status, qlog, qfail,
                 rhist>>

\* one nested lookup of the extractor's second loop
ResolveNS ==
  /\ pc = "resolve"
  /\ idx <= Len(ns_names)
  /\ \E env \in ResolveOutcomes :
       LET r == ResolveOne(ns_names[idx], env)
       IN /\ ns_ips' = ns_ips \o r.ips
          /\ out' = Emit(out, r.lines)
          /\ xhist' = [xhist EXCEPT !.lookups =
                         Append(@, [name |-> ns_names[idx], kind |-> env.kind,
                                    addrs |-> env.addrs])]
          /\ idx' = idx + 1
          /\ pc' = IF r.raised THEN "crashed" ELSE "resolve"
          /\ exit_status' = IF r.raised THEN 1 ELSE exit_status
  /\ op' = "lookup"
  /\ UNCHANGED <<argv, stage, next_ns_list, ns_ip, response, ns_names, qlog, qfail,
                 rhist>>

\* a slip: the extractor's result is put in front of the old candidates
NewCandidates_Merge(old, new) == new \o old

\* next_ns_list = extract_next_nameservers(response)
NewCandidates(old, new) == new

\* a slip: the stage is advanced before the result of the extractor is checked
ExtractReturn_AdvanceFirst ==
  /\ pc = "resolve"
  /\ idx > Len(ns_names)
  /\ next_ns_list' = NewCandidates(next_ns_list, ns_ips)
  /\ IF DeadEnd(NewCandidates(next_ns_list, ns_ips))
     THEN /\ out' = Emit(out, << <<"ERR_NO_NS", NextStage(stage), domain>> >>)
          /\ pc' = "ret"
          /\ stage' = NextStage(stage)
     ELSE /\ stage' = NextStage(stage)
          /\ pc' = "loop"
          /\ UNCHANGED out
  /\ op' = "none"
  /\ UNCHANGED <<argv, ns_ip, response, ns_names, ns_ips, idx, exit_status,
                 iter_hist, rhist>>

\* the extractor returns and the driver takes its result
ExtractReturn ==
  /\ pc = "resolve"
  /\ idx > Len(ns_names)
  /\ next_ns_list' = NewCandidates(next_ns_list, ns_ips)
  /\ IF DeadEnd(NewCandidates(next_ns_list, ns_ips))
     THEN /\ out' = Emit(out, << <<"ERR_NO_NS", stage, domain>> >>)
          /\ pc' = "ret"
          /\ UNCHANGED stage
     ELSE /\ stage' = NextStage(stage)
          /\ pc' = "loop"
          /\ UNCHANGED out
  /\ op' = "none"
  /\ UNCHANGED <<argv, ns_ip, response, ns_names, ns_ips, idx, exit_status,
                 iter_hist, rhist>>

(* ------------------------- recursive_dns_lookup ------------------------ *)
\* a slip: the catch-all except clause comes first and takes every failure
RecursiveCatch_GenericFirst(env) ==
  [raised |-> FALSE, lines |-> << <<"ERR_REC_FAILED", env.detail>> >>]

\* a slip: the last, catch-all except clause is missing
RecursiveCatch_NoGeneric(env) ==
  IF env.kind = "NXDOMAIN"
  THEN [raised |-> FALSE, lines |-> << <<"ERR_REC_NXDOMAIN", domain>> >>]
  ELSE IF env.kind = "Timeout"
  THEN [raised |-> FALSE, lines |-> << <<"ERR_REC_TIMEOUT", domain>> >>]
  ELSE [raised |-> TRUE, lines |-> << >>]

\* the except clauses: the diagnostic for a resolver failure
RecursiveCatch(env) ==
  IF env.kind = "NXDOMAIN"
  THEN [raised |-> FALSE, lines |-> << <<"ERR_REC_NXDOMAIN", domain>> >>]
  ELSE IF env.kind = "Timeout"
  THEN [raised |-> FALSE, lines |-> << <<"ERR_REC_TIMEOUT", domain>> >>]
  ELSE [raised |-> FALSE, lines |-> << <<"ERR_REC_FAILED", env.detail>> >>]

\* the lookup of type rdtype at position p, continuing at q on success
RecLookup(p, q, rdtype, outcomes, tagline) ==
  /\ pc = p
  /\ \E env \in outcomes :
       /\ rhist' = Append(rhist, [type |-> rdtype, kind |-> env.kind,
                                n |-> Len(env.addrs)])
       /\ IF env.kind = "answer"
          THEN /\ out' = Emit(out, [i \in 1..Len(env.addrs) |->
                                       <<tagline, domain, env.addrs[i]>>])
               /\ pc' = q
               /\ UNCHANGED exit_status
          ELSE LET r == RecursiveCatch(env)
               IN /\ out' = Emit(out, r.lines)
                  /\ pc' = IF r.raised THEN "crashed" ELSE "ret"
                  /\ exit_status' = IF r.raised THEN 1 ELSE exit_status
  /\ op' = "rlookup"
  /\ UNCHANGED <<argv, iter_vars, iter_hist>>

\* ns_answer = dns.resolver.resolve(domain, "NS") and the loop printing it
RecNS == RecLookup("rec_ns", "rec_a", "NS", ResolveNSOutcomes, "REC_NS")

\* a_answer = dns.resolver.resolve(domain, "A") and the loop printing it
RecA == RecLookup("rec_a", "ret", "A", ResolveOutcomes, "REC_A")

Next ==
  \/ Main
  \/ LoopTop
  \/ Classify
  \/ ResolveNS
  \/ ExtractReturn
  \/ RecNS
  \/ RecA
  \/ Finish

Spec == Init /\ [][Next]_vars

\* the interpreter runs the program: a step that can be taken is taken
FairSpec == Spec /\ WF_vars(Next)

(* ============================== properties ============================= *)
StageRank(s) == CASE s = "ROOT" -> 0 [] s = "TLD" -> 1 [] s = "AUTH" -> 2

\* the procedure has returned (the elapsed time is printed next, or was)
Returned == pc \in {"ret", "done"}

\* the last line the resolution procedure printed
LastReport == IF pc = "done" THEN out[Len(out) - 1] ELSE out[Len(out)]

\* C1 as stated: the stages under which the queries are issued form a
\* prefix of ROOT, TLD, AUTH, no stage appearing twice.
C1_StagePrefixNoRepeat ==
  /\ Len(qlog) <= 3
  /\ \A i \in 1..Len(qlog) : qlog[i].stage = <<"ROOT", "TLD", "AUTH">>[i]

\* C1, amended: the stages under which the successive queries are issued
\* start at ROOT, never regress, move by one step at a time, and no stage
\* other than AUTH appears twice: the sequence is a prefix of
\* ROOT, TLD, AUTH, AUTH, ...
C1_StageMonotone ==
  /\ Len(qlog) > 0 => /\ qlog[1].stage = "ROOT"
                      /\ StageRank(stage) >= StageRank(qlog[Len(qlog)].stage)
  /\ \A i \in 1..(Len(qlog) - 1) :
       LET a == StageRank(qlog[i].stage)
           b == StageRank(qlog[i + 1].stage)
       IN /\ a <= b
          /\ b <= a + 1
          /\ a = b => qlog[i].stage = "AUTH"

\* a fourth query, issued under AUTH like the third
C1_Witness ==
  /\ Len(qlog) >= 4
  /\ qlog[3].stage = "AUTH"
  /\ qlog[4].stage = "AUTH"

\* C2: every run of the program eventually ends (and the iterative lookup
\* with it), whatever the servers do.
C2_Terminates == <>(pc \in {"done", "crashed"})

\* C3: once a response with a non-empty Answer section has been classified,
\* the driver has returned, its last report is the success line with the
\* first record of the first answer rrset, and neither the extractor nor a
\* nested lookup ran for that response, also when the response carries NS
\* records in its Authority section.
C3_AnswerEndsInSuccess ==
  (response.tag = "Message" /\ Len(response.answer) > 0 /\ pc # "got")
    => /\ Returned
       /\ LastReport[1] = "SUCCESS"
       /\ LastReport[2] = domain
       /\ LastReport[3] = response.answer[1].items[1]
       /\ xhist.calls = 0
       /\ xhist.lookups = << >>

\* a success at stage TLD on a response that also carries NS records, with
\* several candidates left
C3_Witness ==
  /\ pc = "done"
  /\ response.tag = "Message"
  /\ Len(response.answer) > 0
  /\ Len(response.authority) > 0
  /\ stage = "TLD"
  /\ Len(next_ns_list) > 1

\* C4: every success line carries an IPv4 address.
C4_SuccessIsIPv4 ==
  \A k \in 1..Len(out) : out[k][1] = "SUCCESS" => out[k][3] \in IPv4Addrs

\* C5: once a response with an empty Answer and an empty Authority section
\* has been classified, no host name was extracted and no nested lookup was
\* made for it, and when the extractor has returned the driver has returned
\* too, its last report being the "no NS records found" line of the stage.
C5_EmptyResponseDeadEnd ==
  (response.tag = "Message" /\ Len(response.answer) = 0
     /\ Len(response.authority) = 0 /\ pc # "got")
    => /\ xhist.lookups = << >>
       /\ ns_names = << >>
       /\ pc \in {"resolve", "ret", "done"}
       /\ Returned => /\ LastReport[1] = "ERR_NO_NS"
                      /\ LastReport[2] = stage
                      /\ LastReport[3] = domain

\* the dead end reported after an empty response from a TLD-stage server
C5_Witness ==
  /\ pc = "done"
  /\ response.tag = "Message"
  /\ Len(response.answer) = 0
  /\ Len(response.authority) = 0
  /\ stage = "TLD"
  /\ out[Len(out) - 1][1] = "ERR_NO_NS"

\* the addresses of the lookups that resolved, in lookup order
RECURSIVE ResolvedAddrs(_)
ResolvedAddrs(l) ==
  IF Len(l) = 0 THEN << >>
  ELSE (IF Head(l).kind = "answer" THEN Head(l).addrs ELSE << >>)
         \o ResolvedAddrs(Tail(l))

\* the number of these addresses
RECURSIVE ResolvedCount(_)
ResolvedCount(l) ==
  IF Len(l) = 0 THEN 0
  ELSE (IF Head(l).kind = "answer" THEN Len(Head(l).addrs) ELSE 0)
         + ResolvedCount(Tail(l))

\* C6: the extractor looks up the extracted host names one by one in
\* extraction order, a failed lookup raising nothing and stopping nothing,
\* and what it has collected (and what it returns to the driver once every
\* host name was looked up) is the concatenation of the addresses of the
\* lookups that resolved, duplicates kept, its length the sum of their
\* counts.
C6_ExtractorConcatenates ==
  /\ pc # "crashed"
  /\ pc = "resolve" =>
       /\ Len(xhist.lookups) = idx - 1
       /\ idx - 1 <= Len(ns_names)
       /\ \A i \in 1..(idx - 1) : xhist.lookups[i].name = ns_names[i]
       /\ ns_ips = ResolvedAddrs(xhist.lookups)
       /\ Len(ns_ips) = ResolvedCount(xhist.lookups)
  /\ (xhist.calls = 1 /\ pc \in {"loop", "ret", "done"}) =>
       /\ Len(xhist.lookups) = Len(ns_names)
       /\ next_ns_list = ResolvedAddrs(xhist.lookups)
       /\ Len(next_ns_list) = ResolvedCount(xhist.lookups)

\* two host names, the first does not exist, the second resolves to the same
\* address twice, and the driver goes on with these two addresses
C6_Witness ==
  /\ pc = "loop"
  /\ xhist.calls = 1
  /\ Len(xhist.lookups) = 2
  /\ xhist.lookups[1].kind = "NXDOMAIN"
  /\ xhist.lookups[2].kind = "answer"
  /\ Len(next_ns_list) = 2
  /\ next_ns_list[1] = next_ns_list[2]

\* C7: with an argument count other than two, or a mode that is neither
\* "iterative" nor "recursive", the program prints the usage message and
\* nothing else, exits with status 1 and has made no query, no nested lookup
\* and no resolver call.
C7_UsageExit ==
  (pc # "main" /\ (Len(argv) - 1 # 2 \/ argv[2] \notin {"iterative", "recursive"}))
    => /\ pc = "done"
       /\ exit_status = 1
       /\ Len(out) = 1
       /\ out[1][1] = "USAGE"
       /\ qlog = << >>
       /\ rhist = << >>
       /\ xhist.calls = 0
       /\ response.tag = "unset"

\* two arguments, the mode unknown
C7_Witness ==
  /\ pc = "done"
  /\ exit_status = 1
  /\ Len(argv) = 3
  /\ argv[2] = "bogus"

\* the elapsed-time lines on standard output
TimeLines == { k \in 1..Len(out) : out[k][1] = "TIME" }

\* C8: on a valid invocation no exception leaves the resolution procedure;
\* when the program ends, whatever the outcome, the elapsed-time line has
\* been printed once, as the last line, and the exit status is 0; in
\* recursive mode a lookup that fails with NXDOMAIN leaves the NXDOMAIN
\* diagnostic right before the elapsed-time line.
C8_ValidInvocationEnds ==
  (pc # "main" /\ Len(argv) = 3 /\ argv[2] \in {"iterative", "recursive"})
    => /\ pc # "crashed"
       /\ pc = "done" => /\ exit_status = 0
                         /\ Cardinality(TimeLines) = 1
                         /\ out[Len(out)][1] = "TIME"
       /\ pc # "done" => /\ exit_status = -1
                         /\ TimeLines = {}
       /\ (pc = "done" /\ Len(rhist) > 0 /\ rhist[Len(rhist)].kind = "NXDOMAIN")
            => /\ out[Len(out) - 1][1] = "ERR_REC_NXDOMAIN"
               /\ out[Len(out) - 1][2] = domain

\* recursive mode, the NS lookup answers NXDOMAIN, the program has ended
C8_Witness ==
  /\ pc = "done"
  /\ Len(argv) = 3
  /\ argv[2] = "recursive"
  /\ Len(rhist) = 1
  /\ rhist[1].kind = "NXDOMAIN"
  /\ exit_status = 0

\* C9: once a failed query (timeout or any other error) has been
\* classified, the driver has returned: its last report is the "query
\* failed" line with the stage and the server of that query, the candidates
\* are untouched and no other query was or will be issued.
C9_FailureAborts ==
  (response.tag = "None" /\ pc # "got")
    => /\ Returned
       /\ qfail.kind \in {"Timeout", "Other"}
       /\ LastReport[1] = "ERR_QUERY_FAILED"
       /\ LastReport[2] = stage
       /\ LastReport[3] = ns_ip
       /\ ns_ip = next_ns_list[1]
       /\ xhist.calls = 0
       /\ Len(qlog) < MaxLog => qlog[Len(qlog)] = [stage |-> stage, server |-> ns_ip]

\* a timeout of the TLD-stage server while other candidates remain
C9_Witness ==
  /\ pc = "done"
  /\ response.tag = "None"
  /\ qfail.kind = "Timeout"
  /\ stage = "TLD"
  /\ Len(next_ns_list) > 1

\* C10 as stated: one send attempt per call, and the value returned is
\* Failed(Timeout) on a timeout, Failed(TransportError) with the error
\* detail on another exception, the parsed response otherwise.
C10_ReturnsClassifiedFailure ==
  pc = "got" =>
    /\ qfail.attempts = 1
    /\ qfail.kind = "response" => response = ResponseTable[qfail.idx]
    /\ qfail.kind = "Timeout" => /\ response.tag = "Failed"
                                 /\ response.reason = "Timeout"
    /\ qfail.kind = "Other" => /\ response.tag = "Failed"
                               /\ response.reason = "TransportError"
                               /\ response.detail = qfail.detail

\* C10, amended: a call makes at most one send attempt (none when building
\* the query raises, one otherwise) and never raises; on a timeout and on
\* any other exception it returns None, the kind of failure and the error
\* detail going only to the printed diagnostic; otherwise it returns the
\* parsed response as it is.
C10_ReturnsNoneOnFailure ==
  /\ pc # "crashed"
  /\ pc = "got" =>
       /\ qfail.attempts = (IF MakeQueryRaises(domain) THEN 0 ELSE 1)
       /\ qfail.kind = "response" => response = ResponseTable[qfail.idx]
       /\ qfail.kind = "Timeout" => /\ response.tag = "None"
                                    /\ out[Len(out)][1] = "ERR_QUERY_TIMEOUT"
                                    /\ out[Len(out)][2] = ns_ip
       /\ qfail.kind = "Other" => /\ response.tag = "None"
                                  /\ out[Len(out)][1] = "ERR_QUERY_EXCEPTION"
                                  /\ out[Len(out)][2] = ns_ip
                                  /\ out[Len(out)][4] = qfail.detail

\* a refused datagram: None is returned
C10_Witness ==
  /\ pc = "got"
  /\ qfail.kind = "Other"
  /\ qfail.detail = "refused"
  /\ qfail.attempts = 1
  /\ response.tag = "None"

\* the positions of the lines of standard output that carry one of the tags
LinesTagged(tags) == { k \in 1..Len(out) : out[k][1] \in tags }

\* the diagnostic recursive_dns_lookup prints for a failure of a given kind
RecDiagnostic(kind) ==
  CASE kind = "NXDOMAIN" -> "ERR_REC_NXDOMAIN"
    [] kind = "Timeout" -> "ERR_REC_TIMEOUT"
    [] kind = "Other" -> "ERR_REC_FAILED"

\* C11: recursive_dns_lookup looks up NS first and A second; every NS record
\* line precedes every A record line; a failed lookup is the last one, it
\* leaves exactly one diagnostic, of the kind of the failure, as the last
\* line of the procedure; after a failed NS lookup the A lookup is not made
\* and no A record is printed; after a failed A lookup the NS records
\* already printed are still there.
C11_RecursiveReportsInOrder ==
  (Len(argv) = 3 /\ argv[2] = "recursive") =>
    /\ Len(rhist) <= 2
    /\ Len(rhist) >= 1 => rhist[1].type = "NS"
    /\ Len(rhist) = 2 => rhist[1].kind = "answer" /\ rhist[2].type = "A"
    /\ \A i \in LinesTagged({"REC_A"}) : \A j \in LinesTagged({"REC_NS"}) : j < i
    /\ (Len(rhist) >= 1 /\ rhist[1].kind # "answer") =>
         /\ Returned
         /\ LinesTagged({"REC_A", "REC_NS"}) = {}
    /\ (Len(rhist) >= 1 /\ rhist[Len(rhist)].kind # "answer") =>
         /\ Cardinality(LinesTagged({"ERR_REC_NXDOMAIN", "ERR_REC_TIMEOUT",
                                     "ERR_REC_FAILED"})) = 1
         /\ LastReport[1] = RecDiagnostic(rhist[Len(rhist)].kind)
    /\ (Len(rhist) >= 1 /\ rhist[Len(rhist)].kind = "answer") =>
         LinesTagged({"ERR_REC_NXDOMAIN", "ERR_REC_TIMEOUT", "ERR_REC_FAILED"}) = {}
    /\ (Len(rhist) = 2 /\ rhist[2].kind # "answer" /\ rhist[1].n + 2 <= MaxOut) =>
         /\ Cardinality(LinesTagged({"REC_NS"})) = rhist[1].n
         /\ LinesTagged({"REC_A"}) = {}

\* two NS records were printed, then the A lookup timed out
C11_Witness ==
  /\ pc = "done"
  /\ Len(argv) = 3
  /\ argv[2] = "recursive"
  /\ Len(rhist) = 2
  /\ rhist[1].n = 2
  /\ rhist[2].kind = "Timeout"
  /\ Cardinality(LinesTagged({"REC_NS"})) = 2

\* C12: the first query of a run goes to the first root server of the
\* table, under stage ROOT; whenever a query has been issued and until the
\* candidate set is replaced, the server that was queried is the first
\* element of the candidate set, which the query left as it was.
C12_QueriesFirstCandidate ==
  /\ Len(qlog) >= 1 => qlog[1] = [stage |-> "ROOT", server |-> "198.41.0.4"]
  /\ qlog = << >> => ns_ip = "unset"
  /\ pc \in {"got", "resolve"} =>
       /\ Len(next_ns_list) >= 1
       /\ ns_ip = next_ns_list[1]
       /\ Len(qlog) < MaxLog => qlog[Len(qlog)].server = next_ns_list[1]
  /\ (pc = "loop" /\ Len(qlog) = 0) => next_ns_list = ROOT_SERVERS

\* a query under stage TLD to the first of two different candidates
C12_Witness ==
  /\ pc = "got"
  /\ stage = "TLD"
  /\ Len(next_ns_list) = 2
  /\ next_ns_list[1] # next_ns_list[2]
  /\ ns_ip = next_ns_list[1]

\* what a step does with a non-empty result of the extractor, and where
\* the query that follows goes
C13_Step ==
  /\ (pc = "resolve" /\ idx > Len(ns_names) /\ Len(ns_ips) > 0) =>
       /\ pc' = "loop"
       /\ next_ns_list' = ns_ips
       /\ StageRank(stage') = (IF stage = "AUTH" THEN 2 ELSE StageRank(stage) + 1)
       /\ out' = out
  /\ (pc = "loop" /\ xhist.calls = 1) =>
       /\ pc' = "got"
       /\ Len(ns_ips) >= 1
       /\ ns_ip' = ns_ips[1]
       /\ next_ns_list' = next_ns_list
       /\ stage' = stage

\* C13: when the extractor returns a non-empty sequence, the driver moves
\* the stage one step (ROOT to TLD, TLD to AUTH, AUTH to AUTH), makes the
\* candidate set exactly that sequence, nothing of the previous set being
\* kept, reports nothing, and sends the next query to its first element.
C13_ReferralReplacesCandidates == [][C13_Step]_vars

\* a referral followed at AUTH: the stage stayed, the query went to the head
\* of the two addresses the extractor returned
C13_Witness ==
  /\ pc = "got"
  /\ stage = "AUTH"
  /\ Len(qlog) >= 4
  /\ Len(ns_ips) = 2
  /\ next_ns_list = ns_ips
  /\ ns_ip = ns_ips[1]
  /\ ns_ips[1] # ns_ips[2]

\* C14: when the extractor has returned for a response and no lookup gave
\* an address (there was no NS host name, or every lookup failed), the
\* driver has returned: its last report is the "no NS records found" line
\* naming the stage under which the query was issued, the stage has not
\* moved, and no query follows.
C14_EmptyExtractionEndsRun ==
  (xhist.calls = 1 /\ pc # "resolve" /\ ResolvedCount(xhist.lookups) = 0) =>
    /\ Returned
    /\ Len(response.answer) = 0
    /\ Len(xhist.lookups) = Len(ns_names)
    /\ next_ns_list = << >>
    /\ LastReport[1] = "ERR_NO_NS"
    /\ LastReport[2] = stage
    /\ LastReport[3] = domain
    /\ Len(qlog) < MaxLog => qlog[Len(qlog)].stage = LastReport[2]

\* both NS host names of a referral received under TLD failed to resolve
C14_Witness ==
  /\ pc = "done"
  /\ xhist.calls = 1
  /\ Len(xhist.lookups) = 2
  /\ xhist.lookups[1].kind = "Timeout"
  /\ xhist.lookups[2].kind = "NXDOMAIN"
  /\ Len(qlog) = 2
  /\ qlog[2].stage = "TLD"
  /\ stage = "TLD"

\* the NS records of an authority section, as <<rrset, record>> positions
NSRecords(authority) ==
  { p \in UNION { { <<i, j>> : j \in 1..Len(authority[i].items) } :
                  i \in 1..Len(authority) } :
      authority[p[1]].rdtype = "NS" }

\* C15: the extractor extracts one host name per NS record of the Authority
\* section and none for a record of another type, dots stripped at the ends,
\* and makes one lookup per host name; what it returns is empty exactly when
\* there is no NS record or every lookup failed.
C15_EmptyIffNoNSOrAllFailed ==
  xhist.calls = 1 =>
    /\ Len(ns_names) = Cardinality(NSRecords(response.authority))
    /\ \A i \in 1..Len(ns_names) :
         Len(ns_names[i]) > 0 =>
           ns_names[i][1] # "." /\ ns_names[i][Len(ns_names[i])] # "."
    /\ Len(xhist.lookups) <= Len(ns_names)
    /\ pc # "resolve" =>
         /\ Len(xhist.lookups) = Cardinality(NSRecords(response.authority))
         /\ (Len(next_ns_list) = 0)
              <=> \/ NSRecords(response.authority) = {}
                  \/ \A i \in 1..Len(xhist.lookups) : xhist.lookups[i].kind # "answer"

\* an authority section with an SOA record only: no host name, no lookup,
\* an empty result
C15_Witness ==
  /\ pc = "ret"
  /\ xhist.calls = 1
  /\ Len(response.authority) = 1
  /\ response.authority[1].rdtype = "SOA"
  /\ xhist.lookups = << >>
  /\ next_ns_list = << >>

\* the three reports the loop of iterative_dns_lookup returns after
TerminalReports == {"SUCCESS", "ERR_NO_NS", "ERR_QUERY_FAILED"}

\* C16: whenever the loop condition is evaluated the candidate set is not
\* empty, the line "Resolution failed." is never printed, and a run of the
\* iterative lookup that has ended printed exactly one of the three in-loop
\* reports (success, no NS records found, query failed), as its last line.
C16_LoopNeverExitsByCondition ==
  /\ pc = "loop" => Len(next_ns_list) > 0
  /\ LinesTagged({"ERR_RESOLUTION_FAILED"}) = {}
  /\ (Len(argv) = 3 /\ argv[2] = "iterative" /\ Returned) =>
       /\ LastReport[1] \in TerminalReports
       /\ Cardinality(LinesTagged(TerminalReports)) = 1

\* the loop condition was evaluated three times and the run ended with a
\* success report
C16_Witness ==
  /\ pc = "done"
  /\ Len(qlog) = 3
  /\ out[Len(out) - 1][1] = "SUCCESS"
  /\ Cardinality(LinesTagged(TerminalReports)) = 1

\* the stage of the k-th query of a run
StageOfQuery(k) == IF k = 1 THEN "ROOT" ELSE IF k = 2 THEN "TLD" ELSE "AUTH"

\* the referrals followed so far: every query issued led to one, but for
\* the query whose response is being handled or ended the run
ReferralsFollowed == IF pc = "loop" THEN Len(qlog) ELSE Len(qlog) - 1

\* C17: the k-th query of a run is issued under ROOT for k = 1, TLD for
\* k = 2 and AUTH for every k >= 3, whatever the servers answered, and the
\* stage is always the one of rank min(referrals followed so far, 2).
C17_StageDependsOnCountOnly ==
  /\ \A k \in 1..Len(qlog) : qlog[k].stage = StageOfQuery(k)
  /\ (stage # "unset" /\ Len(qlog) < MaxLog) =>
       StageRank(stage) = (IF ReferralsFollowed < 2 THEN ReferralsFollowed ELSE 2)
  /\ (stage # "unset" /\ Len(qlog) = MaxLog /\ MaxLog - 1 >= 2) => stage = "AUTH"

\* the response to the fourth query is being handled: three referrals were
\* followed, from different servers
C17_Witness ==
  /\ pc = "got"
  /\ Len(qlog) >= 4
  /\ qlog[1].stage = "ROOT"
  /\ qlog[2].stage = "TLD"
  /\ qlog[3].stage = "AUTH"
  /\ qlog[4].stage = "AUTH"
  /\ qlog[2].server # qlog[3].server
  /\ qlog[3].server # qlog[4].server

\* the lines after which a resolution procedure or the program is over
FinalLines ==
  TerminalReports \cup
  {"ERR_REC_NXDOMAIN", "ERR_REC_TIMEOUT", "ERR_REC_FAILED", "TIME", "USAGE"}

\* what a step may do, given the blocking call it makes
C18_Step ==
  /\ op' = "query" =>
       /\ pc = "loop"
       /\ Len(qlog) > 0 => /\ xhist.calls = 1
                           /\ Len(response.answer) = 0
                           /\ Len(xhist.lookups) = Len(ns_names)
       /\ xhist'.lookups = << >>
       /\ rhist' = rhist
  /\ op' = "lookup" =>
       /\ pc = "resolve"
       /\ response.tag = "Message"
       /\ Len(response.answer) = 0
       /\ Len(xhist'.lookups) = Len(xhist.lookups) + 1
       /\ qlog' = qlog
       /\ qfail' = qfail
       /\ ns_ip' = ns_ip
       /\ rhist' = rhist
  /\ op' = "rlookup" =>
       /\ pc \in {"rec_ns", "rec_a"}
       /\ Len(rhist') = Len(rhist) + 1
       /\ qlog' = qlog
       /\ xhist' = xhist
  /\ op' = "none" =>
       /\ qlog' = qlog
       /\ qfail' = qfail
       /\ Len(xhist'.lookups) <= Len(xhist.lookups)
       /\ rhist' = rhist
  /\ ((Len(out) > 0 /\ out[Len(out)][1] \in FinalLines) \/ Returned) =>
       /\ op' = "none"
       /\ pc' = "done"

\* C18: a step makes at most one blocking call, a transport query or a
\* nested lookup; a query is issued only at the top of the loop, when the
\* previous response has been classified as a referral and every one of its
\* NS host names has been looked up; a nested lookup is made only for the
\* referral being handled, one host name at a time; and once a terminal
\* report is printed no query and no lookup follows.
C18_StrictlySequential == [][C18_Step]_vars

\* the fourth query has been issued, after the two host names of the third
\* response were looked up one after the other
C18_Witness ==
  /\ op = "query"
  /\ pc = "got"
  /\ Len(qlog) >= 4
  /\ Len(ns_names) = 2
  /\ Len(ns_ips) >= 2
====
